---------------------------- MODULE Spec2Model ----------------------------
(***************************************************************************)
(* kettler-to-ant: the ANT+ broadcast side of the bridge.                  *)
(*                                                                         *)
(* The model follows components/ant_writer.py (PowerWriter: construction,  *)
(* updateModel, start / __sendInLoop, stop), components/ant_broadcaster.py *)
(* (AntBroadcaster set-up, send and close, and the four profile encoders)  *)
(* and ant_support/ant.py (the Ant wrapper that guards every radio call    *)
(* with "channel in self._channels" and converts radio failures into       *)
(* exceptions).  The openant radio itself is outside the repository: each  *)
(* call into it either succeeds or fails, chosen nondeterministically.     *)
(***************************************************************************)
EXTENDS Integers, Sequences, FiniteSets, TLC

(***************************************************************************)
(* Bounds of the exploration.                                              *)
(***************************************************************************)
\* cycles of the transmit loop that are explored (over all runs)
MaxCycles == 2
\* calls of start() that are explored
MaxRuns == 2
\* radio calls that fail, over one behaviour
MaxFaults == 2
\* calls of updateModel() that are explored
MaxUpdates == 2
\* cycles and calls of start() explored together with a concurrent updateModel
RaceCycles == 1
RaceRuns == 1
\* broadcastX calls on one broadcaster: with one argument tuple repeated (deep),
\* with a choice of argument tuples at every call (wide)
DeepCalls == 520
WideCalls == 5
\* radio calls that fail while one broadcaster is called
EncodeFaults == 1

(***************************************************************************)
(* Program constants.                                                      *)
(***************************************************************************)
ANT_NETWORK == 1
ANT_DEVICE_TYPE_POWER == 11
ANT_DEVICE_TYPE_FITNESS_EQUIPMENT == 17
ANT_DEVICE_TYPE_HEART_RATE == 120
ANT_DEVICE_TYPE_SPEED == 123
ANT_POWER_CHANNEL_PERIOD == 8182
ANT_HRM_CHANNEL_PERIOD == 8070
ANT_SPEED_CHANNEL_PERIOD == 8118
ANT_FE_CHANNEL_PERIOD == 8192
ANT_FITNESS_EQUIPMENT_TYPE_STATIONARY_BIKE == 21
ANT_POWER_PROFILE_POwER_PAGE == 16
ANT_FITNESS_EQUIPMENT_PROFILE_GENERAL_DATA_PAGE == 16
ANT_FITNESS_EQUIPMENT_PROFILE_STATIONARY_BIKE_DATA_PAGE == 21
KETTLER_DISTANCE_UNIT_METERS == 100
\* SpeedBroadcaster.WHEEL_CIRCUMFERENCE = 2.105 = 421 / 200
WheelCircumferenceNum == 421
WheelCircumferenceDen == 200
\* PowerBroadcaster.broadcastPower: balance = 50
Balance == 50
\* the device id is DeviceIdBase + device type
DeviceIdBase == 12329
ManId == 5
ChannelFreq == 57
SearchTimeout == 40
\* the channel numbers of the four broadcasters
PowerChannel == 0
HeartRateChannel == 1
SpeedChannel == 2
FitnessEquipmentChannel == 3
\* clamp ranges of updateModel
MaxPower == 2048
MaxCadence == 255
MaxHeartRate == 255
MaxSpeed == 9999
MaxDistance == 65535
MaxEnergy == 65535
MaxElapsedTime == 65535

Channels == {PowerChannel, HeartRateChannel, SpeedChannel, FitnessEquipmentChannel}

\* exception classes of ant_support/ant.py, and Python's AttributeError
NoExc == "none"
AntWrongResponseException == "AntWrongResponseException"
AntException == "AntException"
AttributeError == "AttributeError"

(***************************************************************************)
(* The broadcasters in the order PowerWriter.__init__ constructs them      *)
(* (self.ant, self.hrAnt, self.speedAnt, self.feAnt), each with the        *)
(* arguments its class passes to AntBroadcaster.__init__.                  *)
(***************************************************************************)
PowerBroadcasterArgs ==
    [kind |-> "power", device_type |-> ANT_DEVICE_TYPE_POWER, channel |-> PowerChannel,
     channel_period |-> ANT_POWER_CHANNEL_PERIOD]

\* a heart-rate broadcaster constructed without its channel_period argument
HeartRateBroadcasterArgs_DefaultPeriod ==
    [kind |-> "hr", device_type |-> ANT_DEVICE_TYPE_HEART_RATE, channel |-> HeartRateChannel,
     channel_period |-> ANT_POWER_CHANNEL_PERIOD]

HeartRateBroadcasterArgs ==
    [kind |-> "hr", device_type |-> ANT_DEVICE_TYPE_HEART_RATE, channel |-> HeartRateChannel,
     channel_period |-> ANT_HRM_CHANNEL_PERIOD]

SpeedBroadcasterArgs ==
    [kind |-> "speed", device_type |-> ANT_DEVICE_TYPE_SPEED, channel |-> SpeedChannel,
     channel_period |-> ANT_SPEED_CHANNEL_PERIOD]

FitnessEquipmentBroadcasterArgs ==
    [kind |-> "fe", device_type |-> ANT_DEVICE_TYPE_FITNESS_EQUIPMENT,
     channel |-> FitnessEquipmentChannel,
     channel_period |-> ANT_FE_CHANNEL_PERIOD]

CtorOrder ==
    << PowerBroadcasterArgs, HeartRateBroadcasterArgs,
       SpeedBroadcasterArgs, FitnessEquipmentBroadcasterArgs >>

\* a set-up that opens the channel before it sets the period
SetupOrder_OpenBeforePeriod ==
    << "close_channel", "assign_channel", "set_channel_id", "set_channel_freq",
       "open_channel", "set_channel_period", "set_channel_search_timeout" >>

\* the radio calls of AntBroadcaster.__init__, in program order
SetupOrder ==
    << "close_channel", "assign_channel", "set_channel_id", "set_channel_freq",
       "set_channel_period", "set_channel_search_timeout", "open_channel" >>

VARIABLES
    \* ---- ant_support/ant.py and the radio behind it
    budget,         \* what one behaviour explores: cycles, runs, updates, faults at most
    faults,         \* radio calls that have failed so far
    sharedAnt,      \* AntBroadcaster._shared_ant is set
    channels,       \* keys of Ant._channels
    chanState,      \* per channel number, the radio channel's state
    chanCfg,        \* per channel number, the configuration given to the radio
    \* ---- PowerWriter.__init__
    ctorState,      \* "constructing", "constructed" or "failed"
    ctorB,          \* index in CtorOrder of the broadcaster under construction
    ctorStep,       \* 0: shared node check; 1..7: index in SetupOrder
    setupLog,       \* per channel number, the Ant calls its broadcaster's set-up made
    \* ---- the four broadcasters (observable once PowerWriter.__init__ has returned)
    ant, hrAnt, speedAnt, feAnt,
    \* ---- PowerWriter
    kettlerModel,   \* the shared snapshot
    running, died,
    \* ---- the thread inside start() / __sendInLoop
    pc,             \* "idle", "while", "send", "sleep", "close", "returned", "raised"
    idx,            \* position in SendOrder / CloseOrder while pc is "send" / "close"
    runs,           \* calls of start() so far
    cycles,         \* cycles begun so far
    \* ---- the producer thread inside updateModel
    upPc,           \* 0: not inside updateModel; 1..7: next assignment to execute
    upModel,        \* argument of the current (or last) updateModel call
    upExc,          \* exception raised by the last updateModel call
    updates,        \* calls of updateModel so far
    \* ---- what has been observed (history)
    ver,            \* per snapshot field, the updateModel call that wrote it (0: constructor)
    cycleSends,     \* channels on which the current cycle has called send_broadcast_data
    cycleVers,      \* updateModel calls whose writes the current cycle has read
    lastData,       \* per channel number, the last payload given to send_broadcast_data
    sentStopped,    \* a payload reached the radio channel of a broadcaster after its close()
    closeCalls,     \* broadcasters close() was called on by the current run, in order
    exitCause,      \* how the current run left its loop: "none", "stopped" (the while
                    \* test), "caught" / "uncaught" (an exception the handler caught / did not)
    sendsAfterStop, \* sends of the current run made while running was False
    opened,         \* channels whose open_channel returned during this construction
    closeRaised,    \* some AntBroadcaster.close() call let an exception out
    \* ---- the broadcastX calls made on each broadcaster (history)
    calls,          \* per channel number, the broadcastX calls made since construction
    before,         \* per channel number, the broadcaster's fields before its last call
    lastArgs,       \* per channel number, the arguments of its last call
    lastExc,        \* per channel number, what its last call raised
    prevData,       \* per channel number, the payload of the call before the last
    powerSum,       \* the sum of the power arguments of all broadcastPower calls
    bikePages,      \* the Stationary Bike pages the Fitness Equipment broadcaster has built
    bikePowerSum,   \* the sum of the power arguments of the calls that built them
    \* ---- stop() (history)
    stopRequested   \* stop() has been called and start() has not returned since

radioVars == << sharedAnt, channels, chanState, chanCfg >>
ctorVars == << ctorState, ctorB, ctorStep, setupLog >>
encVars == << ant, hrAnt, speedAnt, feAnt >>
writerVars == << kettlerModel, running, died >>
loopVars == << pc, idx, runs, cycles >>
upVars == << upPc, upModel, upExc, updates >>
callVars == << calls, before, lastArgs, lastExc, prevData, powerSum, bikePages, bikePowerSum >>
runHistVars == << ver, cycleSends, cycleVers, lastData, sentStopped, closeCalls,
                  exitCause, sendsAfterStop, closeRaised, callVars >>
histVars == << runHistVars, opened, stopRequested >>
vars == << budget, faults, radioVars, ctorVars, encVars, writerVars, loopVars, upVars, histVars >>


(***************************************************************************)
(* ant_support/ant.py: what each wrapper method raises.  chs is the key    *)
(* set of Ant._channels, radioOk whether the openant call succeeds.        *)
(***************************************************************************)
assign_channel(radioOk) ==
    IF radioOk THEN NoExc ELSE AntWrongResponseException

set_channel_id(chs, ch, radioOk) ==
    IF ch \notin chs THEN AntWrongResponseException
    ELSE IF radioOk THEN NoExc ELSE AntWrongResponseException

set_channel_period(chs, ch, radioOk) ==
    IF ch \notin chs THEN AntWrongResponseException
    ELSE IF radioOk THEN NoExc ELSE AntWrongResponseException

set_channel_freq(chs, ch, radioOk) ==
    IF ch \notin chs THEN AntWrongResponseException
    ELSE IF radioOk THEN NoExc ELSE AntWrongResponseException

set_channel_search_timeout(chs, ch, radioOk) ==
    IF ch \notin chs THEN AntWrongResponseException
    ELSE IF radioOk THEN NoExc ELSE AntWrongResponseException

open_channel(chs, ch, radioOk) ==
    IF ch \notin chs THEN AntWrongResponseException
    ELSE IF radioOk THEN NoExc ELSE AntWrongResponseException

\* a close_channel that reports a radio failure the way send_broadcast_data does
close_channel_RaisesAntException(chs, ch, radioOk) ==
    IF ch \notin chs THEN AntWrongResponseException
    ELSE IF radioOk THEN NoExc ELSE AntException

close_channel(chs, ch, radioOk) ==
    IF ch \notin chs THEN AntWrongResponseException
    ELSE IF radioOk THEN NoExc ELSE AntWrongResponseException

send_broadcast_data(chs, ch, radioOk) ==
    IF ch \notin chs THEN AntWrongResponseException
    ELSE IF radioOk THEN NoExc ELSE AntException

\* the payload is handed to the openant channel object
ReachesRadio(chs, ch) == ch \in chs

(***************************************************************************)
(* The exception handlers.                                                 *)
(***************************************************************************)
\* AntBroadcaster.__init__: "except ant.AntWrongResponseException: pass"
InitCloseCatches(exc) == exc = AntWrongResponseException

\* AntBroadcaster.close: "except ant.AntWrongResponseException: pass"
CloseCatches(exc) == exc = AntWrongResponseException

\* PowerWriter.__sendInLoop: "except Exception as e"
LoopCatches(exc) == exc \in {AntWrongResponseException, AntException, AttributeError}

(***************************************************************************)
(* The radio: a call into openant succeeds (radioOk) or fails.             *)
(***************************************************************************)
RadioCall(reached, radioOk) ==
    IF reached
    THEN /\ radioOk \/ faults < budget.faults
         /\ faults' = IF radioOk THEN faults ELSE faults + 1
         /\ UNCHANGED budget
    ELSE /\ radioOk
         /\ UNCHANGED << budget, faults >>

(***************************************************************************)
(* The state each broadcaster's constructor leaves.                        *)
(***************************************************************************)
AntBroadcasterFields(args) ==
    [channel |-> args.channel, stopped |-> FALSE,
     deviceId |-> DeviceIdBase + args.device_type]

PowerBroadcasterInit ==
    [base |-> AntBroadcasterFields(PowerBroadcasterArgs),
     power_accum |-> 0, event_counter |-> 0,
     lastPowerUpdate |-> -1, lastCadenceUpdate |-> -1]

HeartRateBroadcasterInit ==
    [base |-> AntBroadcasterFields(HeartRateBroadcasterArgs),
     beat_count |-> 0, measurement_time |-> 0, last_heart_rate |-> -1]

SpeedBroadcasterInit ==
    [base |-> AntBroadcasterFields(SpeedBroadcasterArgs),
     measurement_time |-> 0, last_speed |-> -1, last_distance |-> -1]

\* last_values: the empty tuple stands for a key the dict does not hold
FitnessEquipmentBroadcasterInit ==
    [base |-> AntBroadcasterFields(FitnessEquipmentBroadcasterArgs),
     page_toggle |-> 0, event_counter |-> 0, accumulated_power |-> 0,
     last_general |-> << >>, last_bike |-> << >>]

\* components/ant.py: KettlerModel()
KettlerModelInit ==
    [power |-> 0, cadence |-> 0, heart_rate |-> 0, speed |-> 0,
     distance |-> 0, energy |-> 0, elapsed_time |-> 0]

Fields == << "power", "cadence", "heart_rate", "speed", "distance", "energy", "elapsed_time" >>

NoCfg ==
    [network |-> -1, device |-> -1, device_type_id |-> -1, man_id |-> -1,
     freq |-> -1, period |-> -1, search_timeout |-> -1]

(***************************************************************************)
(* Initial state: the process before PowerWriter(...) is called.  The      *)
(* shared Ant node is a class attribute, so it is either unset (a fresh    *)
(* process) or left, with its four channels, by an earlier PowerWriter of  *)
(* the same process.                                                       *)
(***************************************************************************)
StaleChannelSets == { {}, Channels }

\* what PowerWriter.__init__ and the four broadcaster constructors assign,
\* and the history of a process in which nothing has run yet
InitObjects ==
    /\ faults = 0
    /\ ant = PowerBroadcasterInit
    /\ hrAnt = HeartRateBroadcasterInit
    /\ speedAnt = SpeedBroadcasterInit
    /\ feAnt = FitnessEquipmentBroadcasterInit
    /\ kettlerModel = KettlerModelInit
    /\ running = FALSE
    /\ died = FALSE
    /\ pc = "idle"
    /\ idx = 0
    /\ runs = 0
    /\ cycles = 0
    /\ upPc = 0
    /\ upModel = << >>
    /\ upExc = NoExc
    /\ updates = 0
    /\ ver = [f \in 1..7 |-> 0]
    /\ cycleSends = << >>
    /\ cycleVers = {}
    /\ lastData = [c \in Channels |-> << >>]
    /\ sentStopped = FALSE
    /\ closeCalls = << >>
    /\ exitCause = "none"
    /\ sendsAfterStop = 0
    /\ closeRaised = FALSE
    /\ calls = [c \in Channels |-> 0]
    /\ before = [c \in Channels |-> << >>]
    /\ lastArgs = [c \in Channels |-> << >>]
    /\ lastExc = [c \in Channels |-> NoExc]
    /\ prevData = [c \in Channels |-> << >>]
    /\ powerSum = 0
    /\ bikePages = 0
    /\ bikePowerSum = 0
    /\ stopRequested = FALSE

Init ==
    /\ budget = [cycles |-> MaxCycles, runs |-> MaxRuns, updates |-> 0, faults |-> MaxFaults]
    /\ \E stale \in StaleChannelSets :
          /\ sharedAnt = (stale # {})
          /\ channels = stale
          /\ chanState = [c \in Channels |-> IF c \in stale THEN "open" ELSE "none"]
    /\ chanCfg = [c \in Channels |-> NoCfg]
    /\ ctorState = "constructing"
    /\ ctorB = 1
    /\ ctorStep = 0
    /\ setupLog = [c \in Channels |-> << >>]
    /\ opened = {}
    /\ InitObjects

\* the configuration AntBroadcaster.__init__ gives the radio for one broadcaster
CfgOf(args) ==
    [network |-> ANT_NETWORK, device |-> DeviceIdBase + args.device_type,
     device_type_id |-> args.device_type, man_id |-> ManId,
     freq |-> ChannelFreq, period |-> args.channel_period,
     search_timeout |-> SearchTimeout]

\* the state PowerWriter(...) leaves when no radio call failed
Constructed ==
    /\ sharedAnt = TRUE
    /\ channels = Channels
    /\ chanState = [c \in Channels |-> "open"]
    /\ chanCfg = [c \in Channels |->
                     CfgOf(CHOOSE a \in {CtorOrder[i] : i \in 1..Len(CtorOrder)} : a.channel = c)]
    /\ ctorState = "constructed"
    /\ ctorB = Len(CtorOrder)
    /\ ctorStep = Len(SetupOrder)
    /\ setupLog = [c \in Channels |-> SetupOrder]
    /\ opened = Channels
    /\ InitObjects

(***************************************************************************)
(* PowerWriter.__init__ / AntBroadcaster.__init__, one action per radio    *)
(* call.  An exception that is not caught leaves the constructor: the      *)
(* PowerWriter object is never bound and nothing can be called on it.      *)
(***************************************************************************)
CurArgs == CtorOrder[ctorB]

AtSetupStep(name) ==
    /\ ctorState = "constructing"
    /\ ctorStep \in 1..Len(SetupOrder)
    /\ SetupOrder[ctorStep] = name

\* a try block around the whole set-up sequence
SetupRaises_TryAroundAll(name, exc) ==
    /\ exc # NoExc
    /\ ~InitCloseCatches(exc)

\* lines 43-62: only the defensive close is inside a try block; what any
\* other call raises leaves the constructor
SetupRaises(name, exc) ==
    /\ exc # NoExc
    /\ ~(name = "close_channel" /\ InitCloseCatches(exc))

\* what follows a set-up call that raised exc (NoExc: it returned)
AfterSetupCall(name, exc) ==
    /\ setupLog' = [setupLog EXCEPT ![CurArgs.channel] = Append(@, name)]
    /\ opened' = IF name = "open_channel" /\ exc = NoExc
                 THEN opened \cup {CurArgs.channel} ELSE opened
    /\ UNCHANGED stopRequested
    /\ IF SetupRaises(name, exc)
       THEN /\ ctorState' = "failed"
            /\ UNCHANGED << ctorB, ctorStep >>
       ELSE IF ctorStep < Len(SetupOrder)
       THEN /\ ctorStep' = ctorStep + 1
            /\ UNCHANGED << ctorState, ctorB >>
       ELSE IF ctorB < Len(CtorOrder)
       THEN /\ ctorB' = ctorB + 1
            /\ ctorStep' = 0
            /\ UNCHANGED ctorState
       ELSE /\ ctorState' = "constructed"
            /\ UNCHANGED << ctorB, ctorStep >>
    /\ UNCHANGED << encVars, writerVars, loopVars, upVars, runHistVars >>

\* lines 36-41: the node is created, initialised and keyed once per process
CtorSharedAnt ==
    /\ ctorState = "constructing"
    /\ ctorStep = 0
    /\ IF sharedAnt
       THEN /\ ctorStep' = 1
            /\ UNCHANGED << budget, faults, sharedAnt, ctorState >>
       ELSE \E radioOk \in BOOLEAN :
            /\ RadioCall(TRUE, radioOk)
            /\ sharedAnt' = TRUE
            /\ IF radioOk
               THEN ctorStep' = 1 /\ UNCHANGED ctorState
               ELSE ctorState' = "failed" /\ UNCHANGED ctorStep
    /\ UNCHANGED << channels, chanState, chanCfg, ctorB, setupLog >>
    /\ UNCHANGED << encVars, writerVars, loopVars, upVars, histVars >>

\* lines 43-46: the defensive close
CtorCloseChannel ==
    /\ AtSetupStep("close_channel")
    /\ \E radioOk \in BOOLEAN :
          /\ RadioCall(ReachesRadio(channels, CurArgs.channel), radioOk)
          /\ LET ch == CurArgs.channel
                 exc == close_channel(channels, ch, radioOk)
             IN /\ chanState' = [chanState EXCEPT ![ch] = IF exc = NoExc THEN "closed" ELSE @]
                /\ AfterSetupCall("close_channel", exc)
    /\ UNCHANGED << sharedAnt, channels, chanCfg >>

\* lines 48-50
CtorAssignChannel ==
    /\ AtSetupStep("assign_channel")
    /\ \E radioOk \in BOOLEAN :
          /\ RadioCall(TRUE, radioOk)
          /\ LET ch == CurArgs.channel
                 exc == assign_channel(radioOk)
             IN /\ channels' = IF exc = NoExc THEN channels \cup {ch} ELSE channels
                /\ chanState' = [chanState EXCEPT ![ch] = IF exc = NoExc THEN "assigned" ELSE @]
                /\ chanCfg' = [chanCfg EXCEPT ![ch] =
                                  IF exc = NoExc THEN [NoCfg EXCEPT !.network = ANT_NETWORK] ELSE @]
                /\ AfterSetupCall("assign_channel", exc)
    /\ UNCHANGED sharedAnt

\* lines 52-58
CtorSetChannelId ==
    /\ AtSetupStep("set_channel_id")
    /\ \E radioOk \in BOOLEAN :
          /\ RadioCall(ReachesRadio(channels, CurArgs.channel), radioOk)
          /\ LET ch == CurArgs.channel
                 exc == set_channel_id(channels, ch, radioOk)
             IN /\ chanCfg' = [chanCfg EXCEPT ![ch] =
                                  IF exc = NoExc
                                  THEN [@ EXCEPT !.device = DeviceIdBase + CurArgs.device_type,
                                                 !.device_type_id = CurArgs.device_type,
                                                 !.man_id = ManId]
                                  ELSE @]
                /\ AfterSetupCall("set_channel_id", exc)
    /\ UNCHANGED << sharedAnt, channels, chanState >>

\* line 59
CtorSetChannelFreq ==
    /\ AtSetupStep("set_channel_freq")
    /\ \E radioOk \in BOOLEAN :
          /\ RadioCall(ReachesRadio(channels, CurArgs.channel), radioOk)
          /\ LET ch == CurArgs.channel
                 exc == set_channel_freq(channels, ch, radioOk)
             IN /\ chanCfg' = [chanCfg EXCEPT ![ch] =
                                  IF exc = NoExc THEN [@ EXCEPT !.freq = ChannelFreq] ELSE @]
                /\ AfterSetupCall("set_channel_freq", exc)
    /\ UNCHANGED << sharedAnt, channels, chanState >>

\* line 60
CtorSetChannelPeriod ==
    /\ AtSetupStep("set_channel_period")
    /\ \E radioOk \in BOOLEAN :
          /\ RadioCall(ReachesRadio(channels, CurArgs.channel), radioOk)
          /\ LET ch == CurArgs.channel
                 exc == set_channel_period(channels, ch, radioOk)
             IN /\ chanCfg' = [chanCfg EXCEPT ![ch] =
                                  IF exc = NoExc THEN [@ EXCEPT !.period = CurArgs.channel_period]
                                  ELSE @]
                /\ AfterSetupCall("set_channel_period", exc)
    /\ UNCHANGED << sharedAnt, channels, chanState >>

\* line 61
CtorSetChannelSearchTimeout ==
    /\ AtSetupStep("set_channel_search_timeout")
    /\ \E radioOk \in BOOLEAN :
          /\ RadioCall(ReachesRadio(channels, CurArgs.channel), radioOk)
          /\ LET ch == CurArgs.channel
                 exc == set_channel_search_timeout(channels, ch, radioOk)
             IN /\ chanCfg' = [chanCfg EXCEPT ![ch] =
                                  IF exc = NoExc THEN [@ EXCEPT !.search_timeout = SearchTimeout]
                                  ELSE @]
                /\ AfterSetupCall("set_channel_search_timeout", exc)
    /\ UNCHANGED << sharedAnt, channels, chanState >>

\* line 62
CtorOpenChannel ==
    /\ AtSetupStep("open_channel")
    /\ \E radioOk \in BOOLEAN :
          /\ RadioCall(ReachesRadio(channels, CurArgs.channel), radioOk)
          /\ LET ch == CurArgs.channel
                 exc == open_channel(channels, ch, radioOk)
             IN /\ chanState' = [chanState EXCEPT ![ch] = IF exc = NoExc THEN "open" ELSE @]
                /\ AfterSetupCall("open_channel", exc)
    /\ UNCHANGED << sharedAnt, channels, chanCfg >>

Ctor ==
    \/ CtorSharedAnt
    \/ CtorCloseChannel
    \/ CtorAssignChannel
    \/ CtorSetChannelId
    \/ CtorSetChannelFreq
    \/ CtorSetChannelPeriod
    \/ CtorSetChannelSearchTimeout
    \/ CtorOpenChannel

(***************************************************************************)
(* The profile encoders.  Each broadcastX(self, ..., exc) is the state of  *)
(* the broadcaster after the call, exc being what send_broadcast_data      *)
(* raised (NoExc: nothing); each XData(self, ...) is the payload the call  *)
(* hands to send_broadcast_data.  On non-negative integers "& 0xff" is     *)
(* "% 256" and ">> 8" is "\div 256".                                       *)
(*                                                                         *)
(* The float expressions of the source are exact on the clamped ranges:    *)
(*   int(speed * 1000 / 36)        = (speed * 1000) \div 36                *)
(*   int((60.0 / hr) * 1024)       = 61440 \div hr        (hr in 1..255)   *)
(*   int(dist * 100 / 2.105)       = (dist * 100 * 200) \div 421           *)
(* (compared with the double-precision results over the whole ranges).     *)
(***************************************************************************)
\* bytes 4-5 taken from the accumulator without the 0xff masks
PowerData_UnmaskedAccum(self, power, cadence) ==
    LET power_accum == self.power_accum + power
    IN << ANT_POWER_PROFILE_POwER_PAGE,
          (self.event_counter + 128) % 256,
          128 + Balance,
          cadence,
          power_accum,
          power_accum \div 256,
          power % 256,
          (power \div 256) % 256 >>

\* the payload built before the accumulator is advanced
PowerData_AccumBeforeAdd(self, power, cadence) ==
    LET power_accum == self.power_accum
    IN << ANT_POWER_PROFILE_POwER_PAGE,
          (self.event_counter + 128) % 256,
          128 + Balance,
          cadence,
          power_accum % 256,
          (power_accum \div 256) % 256,
          power % 256,
          (power \div 256) % 256 >>

\* byte 1 reduced modulo 255 instead of masked with 0xff
PowerData_Byte1Mod255(self, power, cadence) ==
    LET power_accum == self.power_accum + power
    IN << ANT_POWER_PROFILE_POwER_PAGE,
          (self.event_counter + 128) % 255,
          128 + Balance,
          cadence,
          power_accum % 256,
          (power_accum \div 256) % 256,
          power % 256,
          (power \div 256) % 256 >>

PowerData(self, power, cadence) ==
    LET power_accum == self.power_accum + power
    IN << ANT_POWER_PROFILE_POwER_PAGE,
          (self.event_counter + 128) % 256,
          128 + Balance,
          cadence,
          power_accum % 256,
          (power_accum \div 256) % 256,
          power % 256,
          (power \div 256) % 256 >>

\* the event counter wrapped with "& 0xff"
broadcastPower_CounterMod256(self, power, cadence, exc) ==
    LET s1 == [self EXCEPT !.power_accum = @ + power,
                           !.event_counter = (@ + 1) % 256]
    IN IF exc = NoExc
       THEN [s1 EXCEPT !.lastPowerUpdate = power, !.lastCadenceUpdate = cadence]
       ELSE s1

broadcastPower(self, power, cadence, exc) ==
    LET s1 == [self EXCEPT !.power_accum = @ + power,
                           !.event_counter = (@ + 1) % 255]
    IN IF exc = NoExc
       THEN [s1 EXCEPT !.lastPowerUpdate = power, !.lastCadenceUpdate = cadence]
       ELSE s1

\* the beat counted outside the "if heart_rate > 0"
HeartRateAdvance_CountsEveryCall(self, heart_rate) ==
    IF heart_rate > 0
    THEN LET beat_interval == (60 * 1024) \div heart_rate
         IN [self EXCEPT !.measurement_time = (@ + beat_interval) % 65536,
                         !.beat_count = (@ + 1) % 256]
    ELSE [self EXCEPT !.beat_count = (@ + 1) % 256]

\* the beat interval rounded to the nearest unit instead of truncated
HeartRateAdvance_Rounded(self, heart_rate) ==
    IF heart_rate > 0
    THEN LET beat_interval == (2 * 60 * 1024 + heart_rate) \div (2 * heart_rate)
         IN [self EXCEPT !.measurement_time = (@ + beat_interval) % 65536,
                         !.beat_count = (@ + 1) % 256]
    ELSE self

\* HeartRateBroadcaster: the state after lines 281-285
HeartRateAdvance(self, heart_rate) ==
    IF heart_rate > 0
    THEN LET beat_interval == (60 * 1024) \div heart_rate
         IN [self EXCEPT !.measurement_time = (@ + beat_interval) % 65536,
                         !.beat_count = (@ + 1) % 256]
    ELSE self

HeartRateData(self, heart_rate) ==
    LET s1 == HeartRateAdvance(self, heart_rate)
    IN << 0, 255, 255, 255,
          s1.measurement_time % 256,
          (s1.measurement_time \div 256) % 256,
          s1.beat_count,
          heart_rate % 256 >>

broadcastHeartRate(self, heart_rate, exc) ==
    LET s1 == HeartRateAdvance(self, heart_rate)
    IN IF exc = NoExc THEN [s1 EXCEPT !.last_heart_rate = heart_rate] ELSE s1

\* a time base that advances on every call, moving or not
SpeedAdvance_EveryCall(self, speed_tenths_kmh) ==
    [self EXCEPT !.measurement_time = (@ + 256) % 65536]

\* SpeedBroadcaster: the state after lines 345-348
SpeedAdvance(self, speed_tenths_kmh) ==
    IF speed_tenths_kmh > 0
    THEN [self EXCEPT !.measurement_time = (@ + 256) % 65536]
    ELSE self

\* the Kettler distance units taken for metres
SpeedData_UnitsAsMetres(self, speed_tenths_kmh, distance_kettler_units) ==
    LET s1 == SpeedAdvance(self, speed_tenths_kmh)
        distance_meters == distance_kettler_units
        cumulative_revs == (distance_meters * WheelCircumferenceDen) \div WheelCircumferenceNum
        wheel_revs_int == cumulative_revs % 65536
    IN << 255, 255, 255, 255,
          s1.measurement_time % 256,
          (s1.measurement_time \div 256) % 256,
          wheel_revs_int % 256,
          (wheel_revs_int \div 256) % 256 >>

SpeedData(self, speed_tenths_kmh, distance_kettler_units) ==
    LET s1 == SpeedAdvance(self, speed_tenths_kmh)
        distance_meters == distance_kettler_units * KETTLER_DISTANCE_UNIT_METERS
        cumulative_revs == (distance_meters * WheelCircumferenceDen) \div WheelCircumferenceNum
        wheel_revs_int == cumulative_revs % 65536
    IN << 255, 255, 255, 255,
          s1.measurement_time % 256,
          (s1.measurement_time \div 256) % 256,
          wheel_revs_int % 256,
          (wheel_revs_int \div 256) % 256 >>

broadcastSpeed(self, speed_tenths_kmh, distance_kettler_units, exc) ==
    LET s1 == SpeedAdvance(self, speed_tenths_kmh)
    IN IF exc = NoExc
       THEN [s1 EXCEPT !.last_speed = speed_tenths_kmh,
                       !.last_distance = distance_kettler_units]
       ELSE s1

\* capabilities | fe_state = (0x2 << 4 | 0x1 << 2 | 0x0) | (3 << 4)
GeneralCapabilitiesAndState == 52
\* flags | fe_state = 0x00 | (3 << 4)
BikeFlagsAndState == 48

\* a speed field rounded to the nearest 0.001 m/s
GeneralDataPage_RoundedSpeed(elapsed_time_secs, distance_kettler, speed_tenths_kmh, heart_rate) ==
    LET distance_m == distance_kettler * KETTLER_DISTANCE_UNIT_METERS
        speed_mms == (speed_tenths_kmh * 1000 + 18) \div 36
    IN << ANT_FITNESS_EQUIPMENT_PROFILE_GENERAL_DATA_PAGE,
          ANT_FITNESS_EQUIPMENT_TYPE_STATIONARY_BIKE,
          (elapsed_time_secs * 4) % 256,
          distance_m % 256,
          speed_mms % 256,
          (speed_mms \div 256) % 256,
          IF heart_rate > 0 THEN heart_rate ELSE 255,
          GeneralCapabilitiesAndState >>

\* a distance field in Kettler units
GeneralDataPage_DistanceInUnits(elapsed_time_secs, distance_kettler, speed_tenths_kmh, heart_rate) ==
    LET distance_m == distance_kettler
        speed_mms == (speed_tenths_kmh * 1000) \div 36
    IN << ANT_FITNESS_EQUIPMENT_PROFILE_GENERAL_DATA_PAGE,
          ANT_FITNESS_EQUIPMENT_TYPE_STATIONARY_BIKE,
          (elapsed_time_secs * 4) % 256,
          distance_m % 256,
          speed_mms % 256,
          (speed_mms \div 256) % 256,
          IF heart_rate > 0 THEN heart_rate ELSE 255,
          GeneralCapabilitiesAndState >>

\* a heart-rate byte without the invalid value
GeneralDataPage_NoSentinel(elapsed_time_secs, distance_kettler, speed_tenths_kmh, heart_rate) ==
    LET distance_m == distance_kettler * KETTLER_DISTANCE_UNIT_METERS
        speed_mms == (speed_tenths_kmh * 1000) \div 36
    IN << ANT_FITNESS_EQUIPMENT_PROFILE_GENERAL_DATA_PAGE,
          ANT_FITNESS_EQUIPMENT_TYPE_STATIONARY_BIKE,
          (elapsed_time_secs * 4) % 256,
          distance_m % 256,
          speed_mms % 256,
          (speed_mms \div 256) % 256,
          heart_rate,
          GeneralCapabilitiesAndState >>

GeneralDataPage(elapsed_time_secs, distance_kettler, speed_tenths_kmh, heart_rate) ==
    LET distance_m == distance_kettler * KETTLER_DISTANCE_UNIT_METERS
        speed_mms == (speed_tenths_kmh * 1000) \div 36
    IN << ANT_FITNESS_EQUIPMENT_PROFILE_GENERAL_DATA_PAGE,
          ANT_FITNESS_EQUIPMENT_TYPE_STATIONARY_BIKE,
          (elapsed_time_secs * 4) % 256,
          distance_m % 256,
          speed_mms % 256,
          (speed_mms \div 256) % 256,
          IF heart_rate > 0 THEN heart_rate ELSE 255,
          GeneralCapabilitiesAndState >>

\* an event counter that wraps the way the Power broadcaster's does
BikeAdvance_CounterMod255(self, power) ==
    [self EXCEPT !.event_counter = (@ + 1) % 255,
                 !.accumulated_power = (@ + power) % 65536]

\* FitnessEquipmentBroadcaster: the state after lines 221-222
BikeAdvance(self, power) ==
    [self EXCEPT !.event_counter = (@ + 1) % 256,
                 !.accumulated_power = (@ + power) % 65536]

StationaryBikePage(self, cadence, power) ==
    LET s1 == BikeAdvance(self, power)
        instant_power == power % 4096
    IN << ANT_FITNESS_EQUIPMENT_PROFILE_STATIONARY_BIKE_DATA_PAGE,
          s1.event_counter,
          cadence % 256,
          s1.accumulated_power % 256,
          (s1.accumulated_power \div 256) % 256,
          instant_power % 256,
          (instant_power \div 256) % 16,
          BikeFlagsAndState >>

\* FitnessEquipmentBroadcaster.broadcast: which page this call sends
SendsGeneralPage(self) == self.page_toggle % 2 = 0

FitnessEquipmentData(self, m) ==
    IF SendsGeneralPage(self)
    THEN GeneralDataPage(m.elapsed_time, m.distance, m.speed, m.heart_rate)
    ELSE StationaryBikePage(self, m.cadence, m.power)

broadcast(self, m, exc) ==
    LET s1 == IF SendsGeneralPage(self)
              THEN [self EXCEPT !.last_general =
                       << m.elapsed_time, m.distance, m.speed, m.heart_rate >>]
              ELSE [BikeAdvance(self, m.power) EXCEPT !.last_bike =
                       << m.cadence, m.power, m.energy >>]
    IN IF exc = NoExc THEN [s1 EXCEPT !.page_toggle = @ + 1] ELSE s1

(***************************************************************************)
(* PowerWriter.updateModel, one action per assignment: the producer thread *)
(* and the transmit loop interleave between them.                          *)
(***************************************************************************)
\* checkRange without its upper test
checkRange_NoUpperTest(min, value, max) ==
    IF value < min THEN min
    ELSE value

checkRange(min, value, max) ==
    IF value < min THEN min
    ELSE IF value > max THEN max
    ELSE value

\* the upper clamp bound updateModel passes for each field
ClampMax ==
    [power |-> MaxPower, cadence |-> MaxCadence, heart_rate |-> MaxHeartRate,
     speed |-> MaxSpeed, distance |-> MaxDistance, energy |-> MaxEnergy,
     elapsed_time |-> MaxElapsedTime]

\* arguments of updateModel: a model in a one-element tuple, or the
\* empty tuple for None (what Kettler.readModel returns for a bad status line)
InRangeModel ==
    [power |-> 200, cadence |-> 90, heart_rate |-> 140, speed |-> 250,
     distance |-> 5, energy |-> 50, elapsed_time |-> 120]

TooHighModel ==
    [power |-> 99999, cadence |-> 256, heart_rate |-> 99999, speed |-> 10000,
     distance |-> 65536, energy |-> 99999, elapsed_time |-> 65536]

TooLowModel ==
    [power |-> -5, cadence |-> -1, heart_rate |-> -5, speed |-> -5,
     distance |-> -1, energy |-> -5, elapsed_time |-> -5]

AtBoundModel ==
    [power |-> 2048, cadence |-> 255, heart_rate |-> 0, speed |-> 9999,
     distance |-> 65535, energy |-> 0, elapsed_time |-> 65535]

\* snapshots inside the clamp ranges for the fitness-equipment pages: the
\* slowest speed, the last speed that fits 16 bits in 0.001 m/s and the
\* first that does not, times and distances around the fields' roll-over
CrawlModel ==
    [power |-> 1, cadence |-> 1, heart_rate |-> 1, speed |-> 1,
     distance |-> 1, energy |-> 1, elapsed_time |-> 1]

FastModel ==
    [power |-> 2047, cadence |-> 254, heart_rate |-> 255, speed |-> 2359,
     distance |-> 2, energy |-> 65535, elapsed_time |-> 63]

WrapModel ==
    [power |-> 300, cadence |-> 120, heart_rate |-> 254, speed |-> 2360,
     distance |-> 3, energy |-> 700, elapsed_time |-> 64]

NoneModel == << >>

UpdateArgs == { <<InRangeModel>>, <<TooHighModel>>, <<TooLowModel>>, <<AtBoundModel>>, NoneModel }

\* the arguments explored together with a running transmit loop
RaceUpdateArgs == { <<InRangeModel>>, <<TooHighModel>>, NoneModel }

UpdateModelCall(args) ==
    /\ UNCHANGED << budget, faults >>
    /\ ctorState = "constructed"
    /\ upPc = 0
    /\ updates < budget.updates
    /\ \E m \in args : upModel' = m
    /\ updates' = updates + 1
    /\ upExc' = NoExc
    /\ upPc' = 1
    /\ UNCHANGED << radioVars, ctorVars, encVars, writerVars, loopVars, histVars >>

UpdateModelAssign ==
    /\ UNCHANGED << budget, faults >>
    /\ upPc \in 1..Len(Fields)
    /\ IF upModel = NoneModel
       THEN \* model.power on None
            /\ upExc' = AttributeError
            /\ upPc' = 0
            /\ UNCHANGED << kettlerModel, ver >>
       ELSE LET f == Fields[upPc]
            IN /\ kettlerModel' =
                     [kettlerModel EXCEPT ![f] = checkRange(0, upModel[1][f], ClampMax[f])]
               /\ ver' = [ver EXCEPT ![upPc] = updates]
               /\ upPc' = IF upPc = Len(Fields) THEN 0 ELSE upPc + 1
               /\ UNCHANGED upExc
    /\ UNCHANGED << upModel, updates, running, died >>
    /\ UNCHANGED << radioVars, ctorVars, encVars, loopVars >>
    /\ UNCHANGED << cycleSends, cycleVers, lastData, sentStopped, closeCalls,
                    exitCause, sendsAfterStop, opened, closeRaised, callVars,
                    stopRequested >>

(***************************************************************************)
(* PowerWriter.start / __sendInLoop / stop.                                *)
(***************************************************************************)
\* the cycle with the heart-rate and speed sends exchanged
SendOrder_SpeedBeforeHeartRate == << "power", "speed", "hr", "fe" >>

\* the broadcasts of one cycle, in program order (lines 69-72)
SendOrder == << "power", "hr", "speed", "fe" >>

\* the finally block without its last close
CloseOrder_WithoutFitnessEquipment == << "power", "hr", "speed" >>

\* the closes of the finally block, in program order (lines 81-84)
CloseOrder == << "power", "hr", "speed", "fe" >>

\* a loop that never tests the flag
WhileCond_True == TRUE

\* line 68: "while self.running"
WhileCond == running

\* a try statement inside the while loop: the handler is followed by the
\* next test of the loop
ExceptTarget_InsideLoop == "while"

\* lines 67-78: the try statement encloses the while loop, so the handler
\* is followed by the finally block
ExceptTarget == "close"

Start ==
    /\ UNCHANGED << budget, faults >>
    /\ ctorState = "constructed"
    /\ pc \in {"idle", "returned"}
    /\ runs < budget.runs
    /\ running' = TRUE
    /\ pc' = "while"
    /\ runs' = runs + 1
    /\ cycleSends' = << >>
    /\ cycleVers' = {}
    /\ closeCalls' = << >>
    /\ exitCause' = "none"
    /\ sendsAfterStop' = 0
    /\ UNCHANGED << radioVars, ctorVars, encVars, upVars >>
    /\ UNCHANGED << kettlerModel, died, idx, cycles, ver, lastData, sentStopped, opened,
                    stopRequested,
                    closeRaised, callVars >>

Stop ==
    /\ UNCHANGED << budget, faults >>
    /\ ctorState = "constructed"
    /\ running' = FALSE
    /\ stopRequested' = TRUE
    /\ UNCHANGED << radioVars, ctorVars, encVars, loopVars, upVars, runHistVars, opened >>
    /\ UNCHANGED << kettlerModel, died >>

LoopWhile ==
    /\ UNCHANGED << budget, faults >>
    /\ pc = "while"
    /\ IF WhileCond
       THEN /\ cycles < budget.cycles
            /\ cycles' = cycles + 1
            /\ pc' = "send"
            /\ idx' = 1
            /\ cycleSends' = << >>
            /\ cycleVers' = {}
            /\ UNCHANGED exitCause
       ELSE /\ pc' = "close"
            /\ idx' = 1
            /\ exitCause' = "stopped"
            /\ UNCHANGED << cycles, cycleSends, cycleVers >>
    /\ UNCHANGED << radioVars, ctorVars, encVars, writerVars, upVars, runs >>
    /\ UNCHANGED << ver, lastData, sentStopped, closeCalls, sendsAfterStop, opened, stopRequested,
                    closeRaised, callVars >>

\* the history of the broadcastX calls: one more call on channel ch, made
\* on the broadcaster self with the arguments args, and what it raised
RecordCall(ch, self, args, exc) ==
    /\ calls' = [calls EXCEPT ![ch] = @ + 1]
    /\ before' = [before EXCEPT ![ch] = self]
    /\ lastArgs' = [lastArgs EXCEPT ![ch] = args]
    /\ lastExc' = [lastExc EXCEPT ![ch] = exc]
    /\ prevData' = [prevData EXCEPT ![ch] = lastData[ch]]
    /\ powerSum' = IF ch = PowerChannel THEN powerSum + args[1] ELSE powerSum
    /\ LET bike == /\ ch = FitnessEquipmentChannel
                   /\ lastData'[ch][1] = ANT_FITNESS_EQUIPMENT_PROFILE_STATIONARY_BIKE_DATA_PAGE
       IN /\ bikePages' = IF bike THEN bikePages + 1 ELSE bikePages
          /\ bikePowerSum' = IF bike THEN bikePowerSum + args[1].power ELSE bikePowerSum

\* what follows a broadcastX call whose send_broadcast_data raised exc
AfterSend(self, data, exc, fieldsRead) ==
    LET ch == self.base.channel
    IN /\ lastData' = [lastData EXCEPT ![ch] = data]
       /\ cycleSends' = Append(cycleSends, ch)
       /\ cycleVers' = cycleVers \cup { ver[i] : i \in fieldsRead }
       /\ sentStopped' = (sentStopped \/ (self.base.stopped /\ ReachesRadio(channels, ch)))
       /\ sendsAfterStop' = IF running THEN sendsAfterStop ELSE sendsAfterStop + 1
       /\ IF exc = NoExc
          THEN /\ IF idx < Len(SendOrder)
                  THEN pc' = "send" /\ idx' = idx + 1
                  ELSE pc' = "sleep" /\ idx' = 0
               /\ UNCHANGED << died, exitCause >>
          ELSE IF LoopCatches(exc)
          THEN /\ died' = TRUE
               /\ exitCause' = "caught"
               /\ pc' = ExceptTarget
               /\ idx' = IF ExceptTarget = "close" THEN 1 ELSE 0
          ELSE /\ exitCause' = "uncaught"
               /\ pc' = "close"
               /\ idx' = 1
               /\ UNCHANGED died
       /\ UNCHANGED << radioVars, ctorVars, upVars, kettlerModel, running >>
       /\ UNCHANGED << runs, cycles, ver, closeCalls, opened, closeRaised, stopRequested >>

AtSend(kind) ==
    /\ pc = "send"
    /\ idx \in 1..Len(SendOrder)
    /\ SendOrder[idx] = kind

\* line 69
SendPower ==
    /\ AtSend("power")
    /\ \E radioOk \in BOOLEAN :
          /\ RadioCall(ReachesRadio(channels, ant.base.channel), radioOk)
          /\ LET power == kettlerModel.power
                 cadence == kettlerModel.cadence
                 exc == send_broadcast_data(channels, ant.base.channel, radioOk)
             IN /\ ant' = broadcastPower(ant, power, cadence, exc)
                /\ AfterSend(ant, PowerData(ant, power, cadence), exc, {1, 2})
                /\ RecordCall(ant.base.channel, ant, << power, cadence >>, exc)
    /\ UNCHANGED << hrAnt, speedAnt, feAnt >>

\* line 70
SendHeartRate ==
    /\ AtSend("hr")
    /\ \E radioOk \in BOOLEAN :
          /\ RadioCall(ReachesRadio(channels, hrAnt.base.channel), radioOk)
          /\ LET heart_rate == kettlerModel.heart_rate
                 exc == send_broadcast_data(channels, hrAnt.base.channel, radioOk)
             IN /\ hrAnt' = broadcastHeartRate(hrAnt, heart_rate, exc)
                /\ AfterSend(hrAnt, HeartRateData(hrAnt, heart_rate), exc, {3})
                /\ RecordCall(hrAnt.base.channel, hrAnt, << heart_rate >>, exc)
    /\ UNCHANGED << ant, speedAnt, feAnt >>

\* a Speed broadcaster that shares its time base with the Heart Rate
\* broadcaster
SendSpeed_SharedTimeBase ==
    /\ AtSend("speed")
    /\ \E radioOk \in BOOLEAN :
          /\ RadioCall(ReachesRadio(channels, speedAnt.base.channel), radioOk)
          /\ LET speed == kettlerModel.speed
                 distance == kettlerModel.distance
                 exc == send_broadcast_data(channels, speedAnt.base.channel, radioOk)
             IN /\ speedAnt' = broadcastSpeed(speedAnt, speed, distance, exc)
                /\ hrAnt' = [hrAnt EXCEPT !.measurement_time = (@ + 256) % 65536]
                /\ AfterSend(speedAnt, SpeedData(speedAnt, speed, distance), exc, {4, 5})
                /\ RecordCall(speedAnt.base.channel, speedAnt, << speed, distance >>, exc)
    /\ UNCHANGED << ant, feAnt >>

\* line 71
SendSpeed ==
    /\ AtSend("speed")
    /\ \E radioOk \in BOOLEAN :
          /\ RadioCall(ReachesRadio(channels, speedAnt.base.channel), radioOk)
          /\ LET speed == kettlerModel.speed
                 distance == kettlerModel.distance
                 exc == send_broadcast_data(channels, speedAnt.base.channel, radioOk)
             IN /\ speedAnt' = broadcastSpeed(speedAnt, speed, distance, exc)
                /\ AfterSend(speedAnt, SpeedData(speedAnt, speed, distance), exc, {4, 5})
                /\ RecordCall(speedAnt.base.channel, speedAnt, << speed, distance >>, exc)
    /\ UNCHANGED << ant, hrAnt, feAnt >>

\* line 72; broadcast() uses the fields of the page it sends
SendFitnessEquipment ==
    /\ AtSend("fe")
    /\ \E radioOk \in BOOLEAN :
          /\ RadioCall(ReachesRadio(channels, feAnt.base.channel), radioOk)
          /\ LET exc == send_broadcast_data(channels, feAnt.base.channel, radioOk)
             IN /\ feAnt' = broadcast(feAnt, kettlerModel, exc)
                /\ AfterSend(feAnt, FitnessEquipmentData(feAnt, kettlerModel), exc, 1..7)
                /\ RecordCall(feAnt.base.channel, feAnt, << kettlerModel >>, exc)
    /\ UNCHANGED << ant, hrAnt, speedAnt >>

\* lines 73-74: __markProgress (a timestamp, not modelled) and sleep
LoopSleep ==
    /\ UNCHANGED << budget, faults >>
    /\ pc = "sleep"
    /\ pc' = "while"
    /\ UNCHANGED << radioVars, ctorVars, encVars, writerVars, upVars, histVars >>
    /\ UNCHANGED << idx, runs, cycles >>

\* AntBroadcaster.close on the broadcaster of the given kind
CloseOf(kind, self) == [self EXCEPT !.base.stopped = TRUE]

BroadcasterOf(kind) ==
    CASE kind = "power" -> ant
      [] kind = "hr" -> hrAnt
      [] kind = "speed" -> speedAnt
      [] kind = "fe" -> feAnt

\* lines 78-84: the finally block, one action per close()
LoopClose ==
    /\ pc = "close"
    /\ idx \in 1..Len(CloseOrder)
    /\ \E radioOk \in BOOLEAN :
          /\ RadioCall(ReachesRadio(channels, BroadcasterOf(CloseOrder[idx]).base.channel), radioOk)
          /\ LET kind == CloseOrder[idx]
                 ch == BroadcasterOf(kind).base.channel
                 exc == close_channel(channels, ch, radioOk)
             IN /\ ant' = IF kind = "power" THEN CloseOf(kind, ant) ELSE ant
                /\ hrAnt' = IF kind = "hr" THEN CloseOf(kind, hrAnt) ELSE hrAnt
                /\ speedAnt' = IF kind = "speed" THEN CloseOf(kind, speedAnt) ELSE speedAnt
                /\ feAnt' = IF kind = "fe" THEN CloseOf(kind, feAnt) ELSE feAnt
                /\ chanState' = [chanState EXCEPT ![ch] = IF exc = NoExc THEN "closed" ELSE @]
                /\ closeCalls' = Append(closeCalls, ch)
                /\ IF exc # NoExc /\ ~CloseCatches(exc)
                   THEN pc' = "raised" /\ idx' = 0 /\ closeRaised' = TRUE
                   ELSE /\ UNCHANGED closeRaised
                        /\ IF idx < Len(CloseOrder)
                           THEN pc' = "close" /\ idx' = idx + 1
                           ELSE /\ pc' = IF exitCause = "uncaught" THEN "raised" ELSE "returned"
                                /\ idx' = 0
    /\ UNCHANGED << sharedAnt, channels, chanCfg, ctorVars, writerVars, upVars >>
    /\ UNCHANGED << runs, cycles >>
    /\ UNCHANGED << ver, cycleSends, cycleVers, lastData, sentStopped, exitCause,
                    sendsAfterStop, opened, callVars >>
    /\ stopRequested' = (stopRequested /\ pc' \notin {"returned", "raised"})

Loop ==
    \/ LoopWhile
    \/ SendPower
    \/ SendHeartRate
    \/ SendSpeed
    \/ SendFitnessEquipment
    \/ LoopSleep
    \/ LoopClose

Next ==
    \/ Ctor
    \/ Start
    \/ Stop
    \/ Loop

\* The life of one PowerWriter: construction, start(), the transmit loop,
\* stop() and the closes, with radio failures.  updateModel assigns only
\* kettlerModel, which no branch of the loop reads; it is explored by
\* SpecUpdate and, next to a running loop, by SpecRace.
Spec == Init /\ [][Next]_vars

\* the thread inside start() keeps running while it has a step to take
FairSpec == Spec /\ WF_vars(Loop)

(***************************************************************************)
(* updateModel alone, on a constructed PowerWriter.                        *)
(***************************************************************************)
InitUpdate ==
    /\ budget = [cycles |-> 0, runs |-> 0, updates |-> MaxUpdates, faults |-> 0]
    /\ Constructed

NextUpdate ==
    \/ UpdateModelCall(UpdateArgs)
    \/ UpdateModelAssign

SpecUpdate == InitUpdate /\ [][NextUpdate]_vars

(***************************************************************************)
(* updateModel on the producer's thread next to the transmit loop, on a    *)
(* constructed PowerWriter whose radio calls succeed.                      *)
(***************************************************************************)
InitRace ==
    /\ budget = [cycles |-> RaceCycles, runs |-> RaceRuns, updates |-> MaxUpdates,
                 faults |-> 0]
    /\ Constructed

NextRace ==
    \/ Start
    \/ Stop
    \/ Loop
    \/ UpdateModelCall(RaceUpdateArgs)
    \/ UpdateModelAssign

SpecRace == InitRace /\ [][NextRace]_vars


(***************************************************************************)
(* The four broadcasters called directly, on a constructed PowerWriter     *)
(* whose loop is not running: broadcastPower, broadcastHeartRate,          *)
(* broadcastSpeed and broadcast are public methods.  One behaviour calls   *)
(* one broadcaster, after a plan: many calls with the same arguments, or   *)
(* a few calls with arguments chosen anew at every call.                   *)
(***************************************************************************)
EncodePlans ==
    { "power-deep", "power-wide", "hr-deep", "hr-wide",
      "speed-deep", "speed-wide", "fe-deep", "fe-wide" }

PlanCalls(plan) ==
    IF plan \in { "power-deep", "hr-deep", "speed-deep", "fe-deep" }
    THEN DeepCalls ELSE WideCalls

\* << power, cadence >>
PowerArgs(plan) ==
    CASE plan = "power-deep" -> { << 2047, 255 >> }
      [] plan = "power-wide" -> { << 0, 0 >>, << 200, 90 >>, << 2048, 255 >> }
      [] OTHER -> {}

\* << heart_rate >>
HeartRateArgs(plan) ==
    CASE plan = "hr-deep" -> { << 60 >> }
      [] plan = "hr-wide" -> { << 0 >>, << 1 >>, << 9 >>, << 60 >>, << 255 >> }
      [] OTHER -> {}

\* << speed_tenths_kmh, distance_kettler_units >>
SpeedArgs(plan) ==
    CASE plan = "speed-deep" -> { << 250, 10 >> }
      [] plan = "speed-wide" ->
            { << 0, 0 >>, << 0, 10 >>, << 250, 10 >>, << 250, 5 >>, << 9999, 65535 >> }
      [] OTHER -> {}

\* << model >>, the snapshot __sendFitnessEquipment passes field by field
FitnessEquipmentArgs(plan) ==
    CASE plan = "fe-deep" -> { << AtBoundModel >> }
      [] plan = "fe-wide" ->
            { << KettlerModelInit >>, << InRangeModel >>, << AtBoundModel >>,
              << CrawlModel >>, << FastModel >>, << WrapModel >> }
      [] OTHER -> {}

\* the caller may make one more call on the broadcaster of channel ch
MayCall(ch) ==
    /\ ctorState = "constructed"
    /\ pc = "idle"
    /\ calls[ch] < PlanCalls(budget.plan)

\* what a direct call leaves alone
CallFrame ==
    /\ UNCHANGED << radioVars, ctorVars, writerVars, loopVars, upVars >>
    /\ UNCHANGED << ver, cycleSends, cycleVers, sentStopped, closeCalls, exitCause,
                    sendsAfterStop, closeRaised, opened, stopRequested >>

\* PowerBroadcaster.broadcastPower(power, cadence)
CallBroadcastPower ==
    /\ MayCall(ant.base.channel)
    /\ \E a \in PowerArgs(budget.plan), radioOk \in BOOLEAN :
          /\ RadioCall(ReachesRadio(channels, ant.base.channel), radioOk)
          /\ LET exc == send_broadcast_data(channels, ant.base.channel, radioOk)
             IN /\ ant' = broadcastPower(ant, a[1], a[2], exc)
                /\ lastData' = [lastData EXCEPT ![ant.base.channel] = PowerData(ant, a[1], a[2])]
                /\ RecordCall(ant.base.channel, ant, a, exc)
    /\ UNCHANGED << hrAnt, speedAnt, feAnt >>
    /\ CallFrame

\* HeartRateBroadcaster.broadcastHeartRate(heart_rate)
CallBroadcastHeartRate ==
    /\ MayCall(hrAnt.base.channel)
    /\ \E a \in HeartRateArgs(budget.plan), radioOk \in BOOLEAN :
          /\ RadioCall(ReachesRadio(channels, hrAnt.base.channel), radioOk)
          /\ LET exc == send_broadcast_data(channels, hrAnt.base.channel, radioOk)
             IN /\ hrAnt' = broadcastHeartRate(hrAnt, a[1], exc)
                /\ lastData' = [lastData EXCEPT ![hrAnt.base.channel] = HeartRateData(hrAnt, a[1])]
                /\ RecordCall(hrAnt.base.channel, hrAnt, a, exc)
    /\ UNCHANGED << ant, speedAnt, feAnt >>
    /\ CallFrame

\* SpeedBroadcaster.broadcastSpeed(speed_tenths_kmh, distance_kettler_units)
CallBroadcastSpeed ==
    /\ MayCall(speedAnt.base.channel)
    /\ \E a \in SpeedArgs(budget.plan), radioOk \in BOOLEAN :
          /\ RadioCall(ReachesRadio(channels, speedAnt.base.channel), radioOk)
          /\ LET exc == send_broadcast_data(channels, speedAnt.base.channel, radioOk)
             IN /\ speedAnt' = broadcastSpeed(speedAnt, a[1], a[2], exc)
                /\ lastData' = [lastData EXCEPT ![speedAnt.base.channel] =
                                   SpeedData(speedAnt, a[1], a[2])]
                /\ RecordCall(speedAnt.base.channel, speedAnt, a, exc)
    /\ UNCHANGED << ant, hrAnt, feAnt >>
    /\ CallFrame

\* FitnessEquipmentBroadcaster.broadcast(elapsed_time_secs, ..., energy_kj)
CallBroadcast ==
    /\ MayCall(feAnt.base.channel)
    /\ \E a \in FitnessEquipmentArgs(budget.plan), radioOk \in BOOLEAN :
          /\ RadioCall(ReachesRadio(channels, feAnt.base.channel), radioOk)
          /\ LET exc == send_broadcast_data(channels, feAnt.base.channel, radioOk)
             IN /\ feAnt' = broadcast(feAnt, a[1], exc)
                /\ lastData' = [lastData EXCEPT ![feAnt.base.channel] =
                                   FitnessEquipmentData(feAnt, a[1])]
                /\ RecordCall(feAnt.base.channel, feAnt, a, exc)
    /\ UNCHANGED << ant, hrAnt, speedAnt >>
    /\ CallFrame

InitEncode ==
    /\ \E plan \in EncodePlans :
          budget = [cycles |-> 0, runs |-> 0, updates |-> 0, faults |-> EncodeFaults,
                    plan |-> plan]
    /\ Constructed

NextEncode ==
    \/ CallBroadcastPower
    \/ CallBroadcastHeartRate
    \/ CallBroadcastSpeed
    \/ CallBroadcast

SpecEncode == InitEncode /\ [][NextEncode]_vars

(***************************************************************************)
(* Properties of updateModel (SpecUpdate, SpecRace).                       *)
(***************************************************************************)
\* the clamp ranges as the specification lists them
ClampRange ==
    [power |-> << 0, 2048 >>, cadence |-> << 0, 255 >>, heart_rate |-> << 0, 255 >>,
     speed |-> << 0, 9999 >>, distance |-> << 0, 65535 >>, energy |-> << 0, 65535 >>,
     elapsed_time |-> << 0, 65535 >>]

InClampRange(f, v) == v >= ClampRange[f][1] /\ v <= ClampRange[f][2]

\* the bound of the range nearest to v, v itself when it lies in the range
Nearest(v, lo, hi) == CHOOSE b \in {lo, hi, v} :
    /\ b >= lo
    /\ b <= hi
    /\ \A c \in {lo, hi, v} : (c >= lo /\ c <= hi) =>
          (IF b > v THEN b - v ELSE v - b) <= (IF c > v THEN c - v ELSE v - c)

\* C1: after any sequence of updateModel calls with integer field values
\* every field of the shared snapshot lies in its clamp range; a field the
\* latest call has assigned holds the bound nearest to the input when the
\* input is out of range (power 99999 is stored as 2048, heart_rate -5 as 0)
\* and the input itself when it is in range; and the call raises no error.
C1_ClampedSnapshot ==
    /\ \A f \in DOMAIN ClampRange : InClampRange(f, kettlerModel[f])
    /\ upModel # NoneModel =>
          /\ upExc = NoExc
          /\ \A i \in 1..Len(Fields) :
                LET f == Fields[i]
                    v == upModel[1][f]
                IN (ver[i] = updates /\ updates > 0) =>
                      /\ kettlerModel[f] = Nearest(v, ClampRange[f][1], ClampRange[f][2])
                      /\ InClampRange(f, v) => kettlerModel[f] = v
                      /\ (f = "power" /\ v = 99999) => kettlerModel[f] = 2048
                      /\ (f = "heart_rate" /\ v = -5) => kettlerModel[f] = 0

\* a second updateModel call has returned; it was given power 99999 and
\* the snapshot holds 2048
C1_Witness ==
    /\ updates = 2
    /\ upPc = 0
    /\ upModel # NoneModel
    /\ upModel[1].power = 99999
    /\ kettlerModel.power = 2048
    /\ ver = [i \in 1..Len(Fields) |-> 2]

\* C2: the four sends of one cycle encode field values that were all
\* written by one single updateModel call: no cycle reads fields written by
\* two different calls.
C2_OneCallPerCycle == Cardinality(cycleVers \ {0}) <= 1


(***************************************************************************)
(* Properties of the transmit loop (Spec, FairSpec).                       *)
(***************************************************************************)
IsPrefix(a, b) == Len(a) <= Len(b) /\ a = SubSeq(b, 1, Len(a))

\* C3: in every cycle the broadcasts go out in the order Power (channel 0),
\* Heart Rate (1), Speed (2), Fitness Equipment (3), one send per channel per
\* cycle; the sends of a new cycle begin only when the cycle before it has
\* made all four sends (or with a new call of start()).
C3_SendOrder ==
    /\ [](IsPrefix(cycleSends, << 0, 1, 2, 3 >>))
    /\ [][cycleSends' # cycleSends =>
             \/ Len(cycleSends') = Len(cycleSends) + 1 /\ IsPrefix(cycleSends, cycleSends')
             \/ cycleSends' = << >> /\ (Len(cycleSends) = 4 \/ runs' = runs + 1)]_vars

\* the second cycle of one run has made its four sends
C3_Witness ==
    /\ runs = 1
    /\ cycles = 2
    /\ pc = "sleep"
    /\ cycleSends = << 0, 1, 2, 3 >>

\* C4: when a step of a cycle raises, died is set and close() is called on
\* all four broadcasters, Power, Heart Rate, Speed, Fitness Equipment, before
\* start() returns, also when a close fails on the radio; after a graceful
\* stop the same four closes are made and died keeps its value, False when
\* no send failed.
C4_DiedAndClosed ==
    /\ [](exitCause \in {"caught", "uncaught"} => died)
    /\ [](pc \in {"returned", "raised"} => closeCalls = << 0, 1, 2, 3 >>)
    /\ [](pc = "returned" /\ exitCause = "stopped" /\ runs = 1 => ~died)
    /\ [][exitCause' = "stopped" => died' = died]_vars

\* a send failed and a close failed on the radio: the loop has returned
\* with died set and four closes made, one channel still open on the radio
C4_Witness ==
    /\ pc = "returned"
    /\ exitCause = "caught"
    /\ died
    /\ closeCalls = << 0, 1, 2, 3 >>
    /\ \E c \in Channels : chanState[c] = "open"

\* C5: after a send has failed, the run makes no further send on any
\* channel: the rest of the failing cycle is skipped, no later cycle begins
\* and the failed send is not made again.
C5_NoSendAfterFailure ==
    [][(exitCause \in {"caught", "uncaught"} /\ runs' = runs) =>
          (cycleSends' = cycleSends /\ cycles' = cycles /\ lastData' = lastData)]_vars

\* the heart-rate send of a cycle failed: the loop has returned, and the
\* cycle has no speed and no fitness-equipment send
C5_Witness ==
    /\ pc = "returned"
    /\ exitCause = "caught"
    /\ cycleSends = << 0, 1 >>

\* C6: when stop() is called while the loop runs, the cycle in progress
\* makes all its remaining sends, no new cycle begins while running is
\* False, and the loop goes on to close the four channels and to return.
C6_GracefulStop ==
    /\ [][(pc = "send" /\ ~running /\ << pc, idx >>' # << pc, idx >>) =>
             Len(cycleSends') = Len(cycleSends) + 1]_vars
    /\ [][cycles' # cycles => running]_vars
    /\ (pc \in {"while", "send", "sleep"} /\ ~running)
          ~> (pc \in {"returned", "raised"} /\ closeCalls = << 0, 1, 2, 3 >>)

\* stop() came in the middle of a cycle: sends were made after it, the
\* cycle has its four sends, and the loop has closed and returned
C6_Witness ==
    /\ pc = "returned"
    /\ exitCause = "stopped"
    /\ sendsAfterStop >= 1
    /\ cycleSends = << 0, 1, 2, 3 >>
    /\ closeCalls = << 0, 1, 2, 3 >>
    /\ ~died


(***************************************************************************)
(* Properties of AntBroadcaster (Spec).                                    *)
(***************************************************************************)
\* C7: AntBroadcaster.close() lets no exception out, whatever the state
\* of the broadcaster and however often it is called: not on a second
\* close() of the same broadcaster, not when the radio fails to close.
C7_CloseNeverRaises == ~closeRaised

\* a second run has called close() again on all four broadcasters, and
\* the radio failed to close channel 0 in both runs
C7_Witness ==
    /\ runs = 2
    /\ pc = "returned"
    /\ closeCalls = << 0, 1, 2, 3 >>
    /\ ant.base.stopped
    /\ chanState[0] = "open"
    /\ faults = 2

\* C8: no payload is handed to the radio channel of a broadcaster whose
\* close() has run: send_broadcast_data on it fails with an error.
C8_NoSendAfterClose == ~sentStopped

\* the set-up sequence as the specification lists it
ExpectedSetup ==
    << "close_channel", "assign_channel", "set_channel_id", "set_channel_freq",
       "set_channel_period", "set_channel_search_timeout", "open_channel" >>

\* C9: each broadcaster's set-up makes its radio calls in the order
\* defensive close, assign, set channel id, set frequency, set period, set
\* search timeout, open; a failure of the defensive close does not end the
\* set-up; and when the loop makes its first send all four broadcasters have
\* completed their open.
C9_SetupOrder ==
    /\ [](\A c \in Channels : IsPrefix(setupLog[c], ExpectedSetup))
    /\ []((pc = "send" \/ cycles > 0 \/ cycleSends # << >>) =>
             /\ opened = {0, 1, 2, 3}
             /\ \A c \in Channels : setupLog[c] = ExpectedSetup)
    /\ [][\A c \in Channels :
             (Len(setupLog[c]) = 0 /\ Len(setupLog'[c]) = 1) => ctorState' = "constructing"]_vars

\* one radio call failed, the defensive close of a set-up; the four
\* set-ups completed and the loop has made its first send
C9_Witness ==
    /\ ctorState = "constructed"
    /\ faults = 1
    /\ runs = 1
    /\ cycles = 1
    /\ pc = "send"
    /\ cycleSends = << 0 >>
    /\ closeCalls = << >>
    /\ opened = {0, 1, 2, 3}

\* C10: a failure of a set-up step after the defensive close, in any of
\* the four broadcasters, ends the construction of the PowerWriter: no later
\* set-up step runs, none is made again, the loop is never started and no
\* broadcast is sent.
C10_SetupFailureIsFatal ==
    /\ [](ctorState = "failed" =>
             /\ pc = "idle"
             /\ runs = 0
             /\ cycles = 0
             /\ \A c \in Channels : lastData[c] = << >>)
    /\ [][ctorState = "failed" =>
             /\ ctorState' = "failed"
             /\ setupLog' = setupLog
             /\ chanCfg' = chanCfg
             /\ opened' = opened]_vars
    /\ [][\A c \in Channels :
             (/\ faults' = faults + 1
              /\ Len(setupLog[c]) >= 1
              /\ Len(setupLog'[c]) = Len(setupLog[c]) + 1) => ctorState' = "failed"]_vars

\* the set-up of the third broadcaster failed at its fourth call,
\* set_channel_freq: two channels are open, the third set-up stopped there
\* and the fourth never began
C10_Witness ==
    /\ ctorState = "failed"
    /\ opened = {0, 1}
    /\ Len(setupLog[2]) = 4
    /\ setupLog[3] = << >>
    /\ pc = "idle"


(***************************************************************************)
(* Properties of the channel configuration (Spec).                         *)
(***************************************************************************)
\* the configuration of the four channels as the specification lists it
ExpectedChannels ==
    [power |-> [channel |-> 0, type |-> 11, device |-> 12340, period |-> 8182],
     hr    |-> [channel |-> 1, type |-> 120, device |-> 12449, period |-> 8070],
     speed |-> [channel |-> 2, type |-> 123, device |-> 12452, period |-> 8118],
     fe    |-> [channel |-> 3, type |-> 17, device |-> 12346, period |-> 8192]]

\* C11: the four channels have the distinct numbers Power 0, Heart Rate 1,
\* Speed 2, Fitness Equipment 3; each channel that has been opened was given
\* its device type code (11, 120, 123, 17), the device id 12329 + type code,
\* its message period (8182, 8070, 8118, 8192), network 1, RF frequency 57
\* and search timeout 40; a constructed PowerWriter has opened all four.
C11_ChannelConfiguration ==
    /\ ant.base.channel = ExpectedChannels.power.channel
    /\ hrAnt.base.channel = ExpectedChannels.hr.channel
    /\ speedAnt.base.channel = ExpectedChannels.speed.channel
    /\ feAnt.base.channel = ExpectedChannels.fe.channel
    /\ ant.base.deviceId = ExpectedChannels.power.device
    /\ hrAnt.base.deviceId = ExpectedChannels.hr.device
    /\ speedAnt.base.deviceId = ExpectedChannels.speed.device
    /\ feAnt.base.deviceId = ExpectedChannels.fe.device
    /\ Cardinality({ExpectedChannels[k].channel : k \in DOMAIN ExpectedChannels}) = 4
    /\ \A k \in DOMAIN ExpectedChannels :
          LET e == ExpectedChannels[k]
              g == chanCfg[e.channel]
          IN /\ e.device = 12329 + e.type
             /\ e.channel \in opened =>
                   /\ g.device_type_id = e.type
                   /\ g.device = e.device
                   /\ g.period = e.period
                   /\ g.network = 1
                   /\ g.freq = 57
                   /\ g.search_timeout = 40
    /\ ctorState = "constructed" => opened = {0, 1, 2, 3}

\* the PowerWriter is constructed: four channels are open and configured
C11_Witness ==
    /\ ctorState = "constructed"
    /\ opened = {0, 1, 2, 3}
    /\ \A c \in Channels : chanState[c] = "open"
    /\ chanCfg[1].period = 8070
    /\ chanCfg[3].device = 12346


(***************************************************************************)
(* Properties of the four encoders (SpecEncode).                           *)
(***************************************************************************)
IsPayload(d) == Len(d) = 8 /\ \A i \in 1..8 : d[i] \in 0..255

\* the 16-bit little-endian value in the payload bytes lo and lo + 1 (counted from 0)
Le16(d, lo) == d[lo + 1] + 256 * d[lo + 2]

\* C12: for snapshots within the clamp ranges and after any number of
\* earlier calls, every payload a broadcaster hands to the radio has exactly
\* 8 values, each in 0..255; byte 0 is 0x10 for Power, 0x00 for Heart Rate,
\* 0x10 or 0x15 for Fitness Equipment, and bytes 0-3 of the Speed payload
\* are all 0xFF.
C12_PayloadShape ==
    /\ \A c \in Channels : calls[c] > 0 => IsPayload(lastData[c])
    /\ calls[0] > 0 => lastData[0][1] = 16
    /\ calls[1] > 0 => lastData[1][1] = 0
    /\ calls[2] > 0 => \A i \in 1..4 : lastData[2][i] = 255
    /\ calls[3] > 0 => lastData[3][1] \in {16, 21}

\* a power payload after more than five hundred earlier calls, with the
\* power at its clamp bound or next to it
C12_Witness ==
    /\ calls[0] > 500
    /\ lastArgs[0][1] >= 2047
    /\ IsPayload(lastData[0])
    /\ lastData[0][1] = 16

\* C13: the Fitness Equipment broadcaster alternates its pages on every
\* call: call k since construction (k from 0) builds page 0x10 when k is
\* even and 0x15 when k is odd, and two consecutive calls never build the
\* same page.
C13_PagesAlternate ==
    /\ calls[3] > 0 => lastData[3][1] = (IF (calls[3] - 1) % 2 = 0 THEN 16 ELSE 21)
    /\ calls[3] > 1 => lastData[3][1] # prevData[3][1]

\* C14: each broadcastPower call adds its power to the accumulated power
\* modulo 65536: bytes 4-5 of the payload of call k are the little-endian
\* encoding of the sum of the powers of calls 1..k modulo 65536.
C14_PowerAccumulates ==
    calls[0] > 0 =>
       /\ Le16(lastData[0], 4) = powerSum % 65536
       /\ ant.power_accum % 65536 = ((before[0].power_accum % 65536) + lastArgs[0][1]) % 65536
       /\ calls[0] > 1 =>
             Le16(lastData[0], 4) = (Le16(prevData[0], 4) + lastArgs[0][1]) % 65536

\* the sum of the powers has passed 65536 and the payload carries the
\* remainder
C14_Witness ==
    /\ calls[0] > 1
    /\ powerSum > 65536
    /\ powerSum < 2 * 65536
    /\ Le16(lastData[0], 4) = powerSum - 65536

\* C15: broadcastHeartRate with heart_rate 0 leaves measurement_time and
\* beat_count as they were, whatever the calls before it, and its payload
\* carries these values in bytes 4-6.
C15_ZeroHeartRateHolds ==
    (calls[1] > 0 /\ lastArgs[1][1] = 0) =>
       /\ hrAnt.measurement_time = before[1].measurement_time
       /\ hrAnt.beat_count = before[1].beat_count
       /\ Le16(lastData[1], 4) = before[1].measurement_time
       /\ lastData[1][7] = before[1].beat_count
       /\ lastData[1][8] = 0
       /\ calls[1] > 1 =>
             /\ lastData[1][5] = prevData[1][5]
             /\ lastData[1][6] = prevData[1][6]
             /\ lastData[1][7] = prevData[1][7]

\* after calls that advanced the time base and the beat count, heart rate
\* 0 was sent: both are held
C15_Witness ==
    /\ calls[1] >= 3
    /\ lastArgs[1][1] = 0
    /\ hrAnt.beat_count >= 2
    /\ hrAnt.measurement_time > 0
    /\ hrAnt.measurement_time = before[1].measurement_time
    /\ lastData[1][7] = hrAnt.beat_count

\* the revolutions for the distances the behaviours use: the integer part
\* of distance_units * 100 / 2.105, modulo 65536
ExpectedRevs == [d \in {0, 5, 10, 65535} |->
    CASE d = 0 -> 0
      [] d = 5 -> 237
      [] d = 10 -> 475
      [] d = 65535 -> 33109]

\* C16: bytes 6-7 of the Speed payload depend on the distance argument
\* only: they are the little-endian encoding of the integer part of
\* distance_units * 100 / 2.105, modulo 65536, whatever the earlier calls, the
\* speed argument and the state of the broadcaster (distance 10 gives 475,
\* bytes 219 and 1).
C16_RevsFromDistance ==
    calls[2] > 0 =>
       LET d == lastArgs[2][2]
           revs == Le16(lastData[2], 6)
       IN /\ revs = ExpectedRevs[d]
          /\ \E n \in 0..47 :
                /\ (revs + 65536 * n) * 421 <= d * 20000
                /\ d * 20000 < (revs + 65536 * n + 1) * 421
          /\ d = 10 => lastData[2][7] = 219 /\ lastData[2][8] = 1

\* distance 10 encoded again after calls that advanced the time base:
\* the field is 475 as in the call before
C16_Witness ==
    /\ calls[2] > 300
    /\ lastArgs[2] = << 250, 10 >>
    /\ speedAnt.measurement_time # before[2].measurement_time
    /\ Le16(lastData[2], 6) = 475
    /\ Le16(prevData[2], 6) = 475

\* C17: a malformed status line makes readModel return no model; handing
\* that result to updateModel is treated as "no update this cycle": the call
\* completes without an error, no field of the shared snapshot is assigned,
\* and the transmit loop goes on.
C17_MalformedIsNoUpdate ==
    (updates > 0 /\ upPc = 0 /\ upModel = NoneModel) =>
       /\ upExc = NoExc
       /\ \A i \in 1..Len(Fields) : ver[i] # updates
       /\ ~died

\* 60 / h * 1024 rounded to the nearest integer (61440 / h is never a half)
RoundedInterval(h) == (2 * 61440 + h) \div (2 * h)

\* the advance of the heart-rate time base made by the last call
HeartRateStep == (hrAnt.measurement_time + 65536 - before[1].measurement_time) % 65536

\* C18 as stated: with heart_rate h in 1..255 each broadcastHeartRate call
\* advances measurement_time by 60 / h * 1024 rounded to the nearest integer,
\* modulo 65536, and beat_count by 1 modulo 256.
C18_RoundedInterval ==
    (calls[1] > 0 /\ lastArgs[1][1] \in 1..255) =>
       /\ HeartRateStep = RoundedInterval(lastArgs[1][1]) % 65536
       /\ hrAnt.beat_count = (before[1].beat_count + 1) % 256

\* C18: with heart_rate h in 1..255 each broadcastHeartRate call advances
\* measurement_time by the integer part of 60 / h * 1024 (the fraction is
\* dropped, not rounded), modulo 65536, and beat_count by 1 modulo 256; with
\* h = 60 the advance is exactly 1024.
C18_TruncatedInterval ==
    (calls[1] > 0 /\ lastArgs[1][1] \in 1..255) =>
       LET h == lastArgs[1][1]
       IN /\ HeartRateStep * h <= 61440
          /\ 61440 < (HeartRateStep + 1) * h
          /\ hrAnt.beat_count = (before[1].beat_count + 1) % 256
          /\ Le16(lastData[1], 4) = hrAnt.measurement_time
          /\ lastData[1][7] = hrAnt.beat_count
          /\ h = 60 => HeartRateStep = 1024
          /\ h = 9 => HeartRateStep = 6826
          /\ h = 255 => HeartRateStep = 240

\* heart rate 9 was sent: 6826.67 became an advance of 6826
C18_Witness ==
    /\ calls[1] > 0
    /\ lastArgs[1] = << 9 >>
    /\ HeartRateStep = 6826
    /\ hrAnt.beat_count = (before[1].beat_count + 1) % 256

\* C19 as stated: byte 1 of every Power payload is (event_counter + 128)
\* mod 255, with event_counter the value before the call's increment.
C19_Byte1Mod255 ==
    calls[0] > 0 => lastData[0][2] = (before[0].event_counter + 128) % 255

\* C19: byte 1 of every Power payload is (event_counter + 128) mod 256, with
\* event_counter the value before the call's increment, for every reachable
\* counter value.
C19_Byte1Mod256 ==
    calls[0] > 0 => lastData[0][2] = (before[0].event_counter + 128) % 256

\* the call made with event_counter 127 put 255 in byte 1
C19_Witness ==
    /\ calls[0] > 0
    /\ before[0].event_counter = 127
    /\ lastData[0][2] = 255

\* C20: the Power encoder's event_counter starts at 0, becomes
\* (x + 1) mod 255 with each broadcastPower call, after the payload is built
\* from x, and lies in 0..254 in every reachable state.
C20_EventCounter ==
    /\ ant.event_counter \in 0..254
    /\ calls[0] = 0 => ant.event_counter = 0
    /\ calls[0] > 0 =>
          /\ ant.event_counter = (before[0].event_counter + 1) % 255
          /\ lastData[0][2] = (before[0].event_counter + 128) % 256
    /\ ant.event_counter = calls[0] % 255

\* the 255th call took the counter from 254 back to 0
C20_Witness ==
    /\ calls[0] = 255
    /\ before[0].event_counter = 254
    /\ ant.event_counter = 0

\* C21: the Speed encoder's measurement_time advances by exactly 256
\* modulo 65536 on every broadcastSpeed call with speed > 0 and is left as it
\* was on every call with speed = 0; bytes 4-5 of the payload carry the value
\* after the update, little-endian.
C21_SpeedTimeBase ==
    calls[2] > 0 =>
       /\ speedAnt.measurement_time =
             (IF lastArgs[2][1] > 0
              THEN (before[2].measurement_time + 256) % 65536
              ELSE before[2].measurement_time)
       /\ Le16(lastData[2], 4) = speedAnt.measurement_time
       /\ speedAnt.measurement_time \in 0..65535

\* the 256th call with speed > 0 took the time base from 65280 back to 0
C21_Witness ==
    /\ calls[2] = 256
    /\ lastArgs[2][1] > 0
    /\ before[2].measurement_time = 65280
    /\ speedAnt.measurement_time = 0
    /\ lastData[2][5] = 0
    /\ lastData[2][6] = 0

(***************************************************************************)
(* Properties of the fitness-equipment pages (SpecEncode).                 *)
(***************************************************************************)
\* the last call of the Fitness Equipment broadcaster built a General
\* Data page / a Stationary Bike page
LastIsGeneralPage ==
    calls[3] > 0 /\ lastData[3][1] = ANT_FITNESS_EQUIPMENT_PROFILE_GENERAL_DATA_PAGE

LastIsBikePage ==
    calls[3] > 0 /\ lastData[3][1] = ANT_FITNESS_EQUIPMENT_PROFILE_STATIONARY_BIKE_DATA_PAGE

\* speed * 1000 / 36 rounded to the nearest integer (the fraction is a
\* multiple of 1/9, never a half)
RoundedSpeed(speed) == (speed * 500 + 9) \div 18

\* the speed field for the speeds the behaviours use: the integer part of
\* speed * 1000 / 36, modulo 65536
ExpectedSpeedField == [v \in {0, 1, 250, 2359, 2360, 9999} |->
    CASE v = 0 -> 0
      [] v = 1 -> 27
      [] v = 250 -> 6944
      [] v = 2359 -> 65527
      [] v = 2360 -> 19
      [] v = 9999 -> 15606]

\* C22 as stated: on the General Data page, bytes 4-5 read little-endian
\* are speed_tenths_kmh * 1000 / 36 rounded to the nearest integer, for every
\* speed in 0..9999.
C22_RoundedSpeedField ==
    LastIsGeneralPage =>
       Le16(lastData[3], 4) = RoundedSpeed(lastArgs[3][1].speed)

\* C22: on the General Data page, bytes 4-5 read little-endian are the
\* integer part of speed_tenths_kmh * 1000 / 36 (the fraction is dropped, not
\* rounded), modulo 65536, for every speed in 0..9999.
C22_TruncatedSpeedField ==
    LastIsGeneralPage =>
       LET v == lastArgs[3][1].speed
           f == Le16(lastData[3], 4)
       IN /\ v \in 0..MaxSpeed
          /\ \E n \in 0..4 :
                /\ (f + 65536 * n) * 36 <= v * 1000
                /\ v * 1000 < (f + 65536 * n + 1) * 36
          /\ f = ExpectedSpeedField[v]

\* speed 1 (27.78 in 0.001 m/s) was sent as 27
C22_Witness ==
    /\ LastIsGeneralPage
    /\ lastArgs[3][1].speed = 1
    /\ lastData[3][5] = 27
    /\ lastData[3][6] = 0

\* the fields for the times and distances the behaviours use
ExpectedTimeField == [t \in {0, 1, 63, 64, 120, 65535} |->
    CASE t = 0 -> 0
      [] t = 1 -> 4
      [] t = 63 -> 252
      [] t = 64 -> 0
      [] t = 120 -> 224
      [] t = 65535 -> 252]

ExpectedDistanceField == [d \in {0, 1, 2, 3, 5, 65535} |->
    CASE d = 0 -> 0
      [] d = 1 -> 100
      [] d = 2 -> 200
      [] d = 3 -> 44
      [] d = 5 -> 244
      [] d = 65535 -> 156]

\* C23: on the General Data page, byte 2 is (elapsed_time_secs * 4) mod 256
\* and byte 3 is (distance_units * 100) mod 256, for all elapsed_time and
\* distance in 0..65535.
C23_TimeAndDistanceFields ==
    LastIsGeneralPage =>
       LET t == lastArgs[3][1].elapsed_time
           d == lastArgs[3][1].distance
       IN /\ t \in 0..MaxElapsedTime
          /\ d \in 0..MaxDistance
          /\ lastData[3][3] = ExpectedTimeField[t]
          /\ lastData[3][4] = ExpectedDistanceField[d]
          /\ \E n \in 0..1023 : lastData[3][3] + 256 * n = 4 * t
          /\ (100 * d - lastData[3][4]) % 256 = 0

\* 64 s and 300 m were sent: the time field has rolled over to 0, the
\* distance field to 44
C23_Witness ==
    /\ LastIsGeneralPage
    /\ lastArgs[3][1].elapsed_time = 64
    /\ lastArgs[3][1].distance = 3
    /\ lastData[3][3] = 0
    /\ lastData[3][4] = 44

\* C29 as stated: on the General Data page, byte 6 is the 0xFF "invalid"
\* value if and only if heart_rate is 0, for every heart_rate in 0..255; for
\* every other value it is heart_rate.
C29_SentinelOnlyForZero ==
    LastIsGeneralPage =>
       LET h == lastArgs[3][1].heart_rate
       IN /\ (lastData[3][7] = 255) <=> (h = 0)
          /\ h # 0 => lastData[3][7] = h

\* C29: on the General Data page, byte 6 is the 0xFF "invalid" value if
\* heart_rate is 0 and is heart_rate for every other value in 0..255; it is
\* 0xFF exactly when heart_rate is 0 or 255.
C29_SentinelForZero ==
    LastIsGeneralPage =>
       LET h == lastArgs[3][1].heart_rate
       IN /\ h \in 0..MaxHeartRate
          /\ h = 0 => lastData[3][7] = 255
          /\ h # 0 => lastData[3][7] = h
          /\ (lastData[3][7] = 255) <=> (h \in {0, 255})

\* heart rate 255, the clamp bound, was sent as 255: the byte reads as
\* the invalid value
C29_Witness ==
    /\ LastIsGeneralPage
    /\ lastArgs[3][1].heart_rate = 255
    /\ lastData[3][7] = 255

\* C24: each Stationary Bike page takes event_counter to
\* (event_counter + 1) mod 256 and accumulated_power to
\* (accumulated_power + power) mod 65536 before it carries them (byte 1 and
\* bytes 3-4, little-endian); a General Data page leaves both as they were.
\* So after any sequence of calls accumulated_power is the sum, modulo 65536,
\* of the powers of the calls that built a bike page, and event_counter is the
\* number of bike pages modulo 256; while every send has succeeded the bike
\* pages are the odd calls.
C24_BikePageState ==
    /\ feAnt.event_counter = bikePages % 256
    /\ feAnt.accumulated_power = bikePowerSum % 65536
    /\ LastIsBikePage =>
          /\ feAnt.event_counter = (before[3].event_counter + 1) % 256
          /\ feAnt.accumulated_power =
                (before[3].accumulated_power + lastArgs[3][1].power) % 65536
          /\ lastData[3][2] = feAnt.event_counter
          /\ Le16(lastData[3], 3) = feAnt.accumulated_power
    /\ LastIsGeneralPage =>
          /\ feAnt.event_counter = before[3].event_counter
          /\ feAnt.accumulated_power = before[3].accumulated_power
    /\ feAnt.page_toggle = calls[3] => bikePages = calls[3] \div 2

\* the 256th bike page took the event counter from 255 back to 0, and the
\* accumulated power has passed 65536
C24_Witness ==
    /\ LastIsBikePage
    /\ bikePages = 256
    /\ before[3].event_counter = 255
    /\ feAnt.event_counter = 0
    /\ lastData[3][2] = 0
    /\ bikePowerSum > 65536
    /\ Le16(lastData[3], 3) = bikePowerSum % 65536

\* C26: byte 1 (the update event count) of each Power payload is 1
\* greater, modulo 256, than byte 1 of the Power payload before it, also where
\* event_counter wraps: no event count is skipped or repeated.
C26_EventCountSteps ==
    calls[0] > 1 => lastData[0][2] = (prevData[0][2] + 1) % 256

(***************************************************************************)
(* Properties of start(), stop() and construction (Spec).                  *)
(***************************************************************************)
\* C27: once stop() has been called, the transmit loop exits and closes
\* its channels under every interleaving of stop() with start(), also when
\* stop() runs before start() has set running to True: at the while test
\* that follows a stop() the flag is False, so the loop goes to its closes.
C27_StopIsHonoured ==
    (stopRequested /\ pc = "while") => ~running

\* C28: under any sequence of start(), stop() and send failures, also
\* when start() is called again after the loop has returned, no broadcast is
\* sent on a channel after close() has run on that channel's broadcaster.
C28_NoBroadcastAfterClose ==
    \A c \in Channels :
       (calls[c] > 0 /\ ReachesRadio(channels, c)) => ~before[c].base.stopped

\* C30: when the set-up of a later broadcaster fails during the
\* construction of a PowerWriter, no channel an earlier broadcaster opened is
\* left open: each has been closed when the error reaches the caller.
C30_FailedSetupClosesChannels ==
    ctorState = "failed" => \A c \in opened : chanState[c] # "open"

(***************************************************************************)
(* The four encoders next to each other and to updateModel (SpecRace).     *)
(***************************************************************************)
EncoderOnChannel(c) ==
    CASE c = PowerChannel -> ant
      [] c = HeartRateChannel -> hrAnt
      [] c = SpeedChannel -> speedAnt
      [] c = FitnessEquipmentChannel -> feAnt

EncoderInit(c) ==
    CASE c = PowerChannel -> PowerBroadcasterInit
      [] c = HeartRateChannel -> HeartRateBroadcasterInit
      [] c = SpeedChannel -> SpeedBroadcasterInit
      [] c = FitnessEquipmentChannel -> FitnessEquipmentBroadcasterInit

\* the payload and the state that the call on channel c with the
\* arguments a, raising exc, makes of the encoder state self
OwnPayload(c, self, a) ==
    CASE c = PowerChannel -> PowerData(self, a[1], a[2])
      [] c = HeartRateChannel -> HeartRateData(self, a[1])
      [] c = SpeedChannel -> SpeedData(self, a[1], a[2])
      [] c = FitnessEquipmentChannel -> FitnessEquipmentData(self, a[1])

OwnNextState(c, self, a, exc) ==
    CASE c = PowerChannel -> broadcastPower(self, a[1], a[2], exc)
      [] c = HeartRateChannel -> broadcastHeartRate(self, a[1], exc)
      [] c = SpeedChannel -> broadcastSpeed(self, a[1], a[2], exc)
      [] c = FitnessEquipmentChannel -> broadcast(self, a[1], exc)

\* the rolling state: the fields but for the flag that close() sets
Rolling(self) == [self EXCEPT !.base.stopped = FALSE]

\* each encoder's rolling state is what its own last call left, and its
\* last payload what that call made of its own state and arguments
C25_OwnState ==
    \A c \in Channels :
       IF calls[c] = 0
       THEN Rolling(EncoderOnChannel(c)) = Rolling(EncoderInit(c))
       ELSE /\ Rolling(EncoderOnChannel(c)) =
                  Rolling(OwnNextState(c, before[c], lastArgs[c], lastExc[c]))
            /\ lastData[c] = OwnPayload(c, before[c], lastArgs[c])

\* a step that is a broadcast call on one channel leaves the three other
\* encoders, their payloads and the shared snapshot as they were
C25_Frame ==
    \A c \in Channels :
       calls'[c] # calls[c] =>
          /\ kettlerModel' = kettlerModel
          /\ \A d \in Channels \ {c} :
                /\ EncoderOnChannel(d)' = EncoderOnChannel(d)
                /\ lastData'[d] = lastData[d]
                /\ calls'[d] = calls[d]

\* C25: each broadcast operation changes only the rolling state of its
\* own encoder: broadcastPower leaves the Heart Rate, Speed and Fitness
\* Equipment state as it was, and likewise each of the other three; none
\* modifies the shared snapshot, and each payload depends only on that
\* encoder's own state and the arguments of the call.
C25_EncodersAreIndependent ==
    /\ []C25_OwnState
    /\ [][C25_Frame]_vars

\* a cycle has called all four encoders on a snapshot that updateModel
\* wrote, and the Heart Rate encoder still holds what its own call left
C25_Witness ==
    /\ \A c \in Channels : calls[c] > 0
    /\ cycleSends = << 0, 1, 2, 3 >>
    /\ kettlerModel.heart_rate > 0
    /\ lastArgs[1][1] > 0
    /\ hrAnt.beat_count = 1
    /\ speedAnt.measurement_time = 256
    /\ lastArgs[0][1] > 0
    /\ kettlerModel.power = lastArgs[0][1]

==========================================================================
